---- MODULE Spec2Model ----
(***************************************************************************)
(* The optimistic sold/available status toggle of the seller's product     *)
(* list (src/src/components/seller/ProductsList.tsx), together with the    *)
(* host that renders it and the backend it talks to.                       *)
(*                                                                         *)
(* One action is one run-to-completion step of the single JavaScript       *)
(* thread: a click handler up to its first await, the continuation of an   *)
(* awaited call, a timer callback.  The variable effects lists, in code    *)
(* order, the externally visible effects of the step that was taken last;  *)
(* the variable last names that step and what it was invoked on.           *)
(***************************************************************************)
EXTENDS Integers, Sequences, FiniteSets, TLC

\* The products the seller owns.
ProductIds == {"A", "B"}

\* productId: null
NoId == "null"

\* soldAt: null
NullTime == -1

\* The sold_at every product sold before the run carries.
T0 == 0

\* How many toggles may pass validation in one run.
MaxToggles == 2

\* How many refresh timers may fire with an onRefresh to call in one run.
MaxRefreshes == 1

\* How many Undo buttons may be clicked in one run.
MaxUndos == 1

VARIABLES
    statusUpdateState,  \* the component's useState record
    products,           \* the products prop: the host's local collection
    backend,            \* the products as the backend stores them
    wired,              \* whether the host passes onStatusUpdate and onRefresh
    clock,              \* the last value new Date() returned
    calls,              \* updateProduct calls of toggles awaiting their result,
                        \* each with the product as it was before the patch
    timers,             \* pending setTimeout callbacks
    fetchResponses,     \* served refresh fetches not yet applied
    refreshes,          \* how many refresh fetches were sent
    undos,              \* Undo buttons of the success toasts on display
    undoCalls,          \* updateProduct calls of Undo awaiting their result
    undoClicks,         \* how many Undo buttons were clicked
    effects,            \* the effects of the last step, in code order
    last                \* the last step

toggle == <<calls, timers>>
refresh == <<fetchResponses, refreshes>>
undo == <<undos, undoCalls, undoClicks>>
vars == <<statusUpdateState, products, backend, wired, clock, calls, timers,
          fetchResponses, refreshes, undos, undoCalls, undoClicks, effects,
          last>>

-----------------------------------------------------------------------------
(* Values *)

\* previousState: null
NoPrevious == << >>

\* previousState: { isSold, soldAt }
Previous(isSold, soldAt) == << [isSold |-> isSold, soldAt |-> soldAt] >>

\* The value useState is constructed with.
InitialState ==
    [productId |-> NoId, isUpdating |-> FALSE, isDialogOpen |-> FALSE,
     willBeSold |-> FALSE, currentStatus |-> FALSE, previousState |-> NoPrevious]

\* error.response?.data?.message of a failed call: absent, empty, or a text.
NoMessage == "undefined"
ServerMessages == {NoMessage, "", "Product not found"}

GenericMessage == "Failed to update product status. Please try again."

\* The phase of the specification's state machine, read off the two flags.
Phase(s) ==
    IF s.isUpdating THEN "Applying"
    ELSE IF s.isDialogOpen THEN "Confirming"
    ELSE "Idle"

\* products.find(p => p.id === productId) finds a product.
Find(prods, productId) == productId \in DOMAIN prods

-----------------------------------------------------------------------------
(* The host *)

\* The host's callback that patches one product's status and soldAt.
OnStatusUpdate(prods, productId, status, soldAt) ==
    IF productId \in DOMAIN prods
    THEN [prods EXCEPT ![productId] =
              [isSold |-> (status = "sold"), soldAt |-> soldAt]]
    ELSE prods

\* The backend's updateProduct, on a product it has.
UpdateProduct(store, productId, status, soldAt) ==
    [store EXCEPT ![productId] =
         [isSold |-> (status = "sold"), soldAt |-> soldAt]]

-----------------------------------------------------------------------------
(* ProductsList *)

\* onStatusUpdate?.(productId, status, soldAt)
Patch(w, prods, productId, status, soldAt) ==
    IF w THEN OnStatusUpdate(prods, productId, status, soldAt) ELSE prods

\* The effect a call of onStatusUpdate?.() leaves.
PatchEffect(w, productId, status, soldAt) ==
    IF w
    THEN << [e |-> "patch", productId |-> productId, status |-> status,
             soldAt |-> soldAt] >>
    ELSE << >>

\* willBeSold ? 'sold' : 'available'
StatusOf(isSold) == IF isSold THEN "sold" ELSE "available"

\* A soldAt that is stamped whichever way the toggle goes.
SoldAtOfAlwaysStamped(willBeSold, now) == now

\* willBeSold ? new Date().toISOString() : null
SoldAtOf(willBeSold, now) == IF willBeSold THEN now ELSE NullTime

\* if (!productId || !previousState) return
Validates(s) == s.productId # NoId /\ s.previousState # NoPrevious

\* setStatusUpdateState(prev => ({...prev, isDialogOpen: false, isUpdating: true}))
ApplyingState(s) == [s EXCEPT !.isDialogOpen = FALSE, !.isUpdating = TRUE]

\* A finally block that leaves isUpdating set.
FinallyResetStaysUpdating(s) ==
    [s EXCEPT !.isDialogOpen = FALSE, !.productId = NoId,
              !.willBeSold = FALSE, !.currentStatus = FALSE,
              !.previousState = NoPrevious]

\* A finally block that clears the flags and leaves the request behind.
FinallyResetKeepsRequest(s) ==
    [s EXCEPT !.isUpdating = FALSE, !.isDialogOpen = FALSE]

\* The finally block of handleStatusUpdate.
FinallyReset(s) ==
    [s EXCEPT !.isUpdating = FALSE, !.isDialogOpen = FALSE, !.productId = NoId,
              !.willBeSold = FALSE, !.currentStatus = FALSE,
              !.previousState = NoPrevious]

\* The state confirmStatusUpdate leaves.
ConfirmStatusUpdate(s, prods, productId, isCurrentlySold) ==
    IF ~Find(prods, productId) THEN s
    ELSE [productId |-> productId, isUpdating |-> FALSE, isDialogOpen |-> TRUE,
          willBeSold |-> ~isCurrentlySold, currentStatus |-> isCurrentlySold,
          previousState |-> Previous(isCurrentlySold, prods[productId].soldAt)]

\* disabled={statusUpdateState.isUpdating && statusUpdateState.productId === product.id}
RowDisabled(s, productId) == s.isUpdating /\ s.productId = productId

\* disabled={statusUpdateState.isUpdating} of the dialog's Confirm button.
ConfirmDisabled(s) == s.isUpdating

\* An onOpenChange that drops the flag it is given.
OnOpenChangeDropsFlag(s, open) == s

\* onOpenChange of the AlertDialog.
OnOpenChange(s, open) == [s EXCEPT !.isDialogOpen = open]

\* A revert that writes back the status the toggle moved to.
RevertStatusToggled(previousState) == StatusOf(~previousState.isSold)

\* The payload the catch block and Undo write back.
RevertStatus(previousState) == StatusOf(previousState.isSold)

\* A revert that writes the status back and forgets the timestamp.
RevertSoldAtForgotten(previousState) == NullTime

RevertSoldAt(previousState) == previousState.soldAt

\* A success toast that offers no Undo.
SuccessToastWithoutUndo(found, productId, willBeSold) ==
    IF found
    THEN << [e |-> "toast", variant |-> "default",
             title |-> IF willBeSold THEN "Product Marked as Sold"
                       ELSE "Product Marked as Available",
             names |-> productId,
             description |-> IF willBeSold THEN "marked as sold"
                             ELSE "made available",
             action |-> "none"] >>
    ELSE << >>

\* The success toast of handleStatusUpdate, shown if (product).
SuccessToast(found, productId, willBeSold) ==
    IF found
    THEN << [e |-> "toast", variant |-> "default",
             title |-> IF willBeSold THEN "Product Marked as Sold"
                       ELSE "Product Marked as Available",
             names |-> productId,
             description |-> IF willBeSold THEN "marked as sold"
                             ELSE "made available",
             action |-> "Undo"] >>
    ELSE << >>

\* An error toast that never quotes the server.
ErrorDescriptionAlwaysGeneric(message) == GenericMessage

\* error.response?.data?.message || 'Failed to update product status. ...'
ErrorDescription(message) ==
    IF message = NoMessage \/ message = "" THEN GenericMessage ELSE message

\* The error toast of the catch block.
ErrorToast(message) ==
    << [e |-> "toast", variant |-> "destructive", title |-> "Error",
        names |-> NoId, description |-> ErrorDescription(message),
        action |-> "none"] >>

\* A failed Undo that tells the user nothing.
UndoFailsSilently == << >>

\* The error toast of a failed Undo.
UndoErrorToast ==
    << [e |-> "toast", variant |-> "destructive", title |-> "Error",
        names |-> NoId, description |-> "Failed to undo status update",
        action |-> "none"] >>

SetState == << [e |-> "setState"] >>

SetTimeout == << [e |-> "setTimeout"] >>

\* A dispatch that sends the call a second time.
DispatchTwice(productId, status, soldAt) ==
    << [e |-> "updateProduct", productId |-> productId, status |-> status,
        soldAt |-> soldAt],
       [e |-> "updateProduct", productId |-> productId, status |-> status,
        soldAt |-> soldAt] >>

\* sellerApi.updateProduct(productId, { status, soldAt })
Dispatch(productId, status, soldAt) ==
    << [e |-> "updateProduct", productId |-> productId, status |-> status,
        soldAt |-> soldAt] >>

\* The effects of handleStatusUpdate up to its await, in code order.
ConfirmEffects(w, productId, status, soldAt) ==
    SetState \o PatchEffect(w, productId, status, soldAt) \o SetTimeout
        \o Dispatch(productId, status, soldAt)

\* console.error('Failed to update product status:', error)
LogError(message) == << [e |-> "console.error", message |-> message] >>

\* The effects of the catch and finally blocks, in code order.
FailureEffects(w, productId, previousState, message) ==
    LogError(message)
        \o PatchEffect(w, productId, RevertStatus(previousState),
                       RevertSoldAt(previousState))
        \o ErrorToast(message) \o SetState

\* The effects of the success branch and the finally block, in code order.
SuccessEffects(found, productId, willBeSold) ==
    SuccessToast(found, productId, willBeSold) \o SetState

\* A step: the operation, the product and the snapshot it ran with, and what
\* came of it.
Step(op, productId, phase, result, previousState) ==
    [op |-> op, productId |-> productId, phase |-> phase, result |-> result,
     previousState |-> previousState]

\* The phase recorded for a step no user operation took.
NoPhase == "-"

-----------------------------------------------------------------------------
(* Construction *)

Init ==
    /\ statusUpdateState = InitialState
    /\ products = [p \in ProductIds |->
                      IF p = "A" THEN [isSold |-> FALSE, soldAt |-> NullTime]
                      ELSE [isSold |-> TRUE, soldAt |-> T0]]
    /\ backend = products
    /\ wired \in BOOLEAN
    /\ clock = T0
    /\ calls = {}
    /\ timers = 0
    /\ fetchResponses = {}
    /\ refreshes = 0
    /\ undos = {}
    /\ undoCalls = {}
    /\ undoClicks = 0
    /\ effects = << >>
    /\ last = Step("init", NoId, NoPhase, "none", NoPrevious)

-----------------------------------------------------------------------------
(* Steps *)

\* A click on a row's toggle button: requestToggle.
RequestToggle(p) ==
    /\ p \in DOMAIN products
    /\ IF RowDisabled(statusUpdateState, p)
       THEN /\ UNCHANGED statusUpdateState
            /\ effects' = << >>
            /\ last' = Step("requestToggle", p, Phase(statusUpdateState),
                            "disabled", statusUpdateState.previousState)
       ELSE /\ statusUpdateState' =
                ConfirmStatusUpdate(statusUpdateState, products, p,
                                    products[p].isSold)
            /\ effects' = SetState
            /\ last' = Step("requestToggle", p, Phase(statusUpdateState),
                            "opened", NoPrevious)
    /\ UNCHANGED <<products, backend, wired, clock, toggle, refresh, undo>>

\* The dialog's Cancel button or the Escape key: cancel.
Cancel ==
    /\ statusUpdateState' = OnOpenChange(statusUpdateState, FALSE)
    /\ effects' = SetState
    /\ last' = Step("cancel", statusUpdateState.productId,
                    Phase(statusUpdateState), "closed",
                    statusUpdateState.previousState)
    /\ UNCHANGED <<products, backend, wired, clock, toggle, refresh, undo>>

\* A handleStatusUpdate that does not check productId and previousState.
ConfirmUnvalidated ==
    LET s == statusUpdateState
        now == clock + 1
        status == StatusOf(s.willBeSold)
        soldAt == SoldAtOf(s.willBeSold, now)
        previousState ==
            IF s.previousState = NoPrevious
            THEN [isSold |-> s.currentStatus, soldAt |-> NullTime]
            ELSE s.previousState[1]
    IN  /\ ~ConfirmDisabled(s)
        /\ clock < T0 + MaxToggles
        /\ clock' = now
        /\ statusUpdateState' = ApplyingState(s)
        /\ products' = Patch(wired, products, s.productId, status, soldAt)
        /\ timers' = timers + 1
        /\ calls' = calls \cup
               {[id |-> now, productId |-> s.productId,
                 willBeSold |-> s.willBeSold, status |-> status,
                 soldAt |-> soldAt, previousState |-> previousState,
                 found |-> Find(products, s.productId),
                 before |-> previousState]}
        /\ effects' = ConfirmEffects(wired, s.productId, status, soldAt)
        /\ last' = Step("confirm", s.productId, Phase(s), "dispatched",
                        << previousState >>)
        /\ UNCHANGED <<backend, wired, refresh, undo>>

\* The dialog's Confirm button: confirm, handleStatusUpdate up to its await.
Confirm ==
    LET s == statusUpdateState
        now == clock + 1
        status == StatusOf(s.willBeSold)
        soldAt == SoldAtOf(s.willBeSold, now)
    IN  IF ConfirmDisabled(s)
        THEN /\ effects' = << >>
             /\ last' = Step("confirm", s.productId, Phase(s), "disabled",
                             s.previousState)
             /\ UNCHANGED <<statusUpdateState, products, backend, wired, clock,
                            toggle, refresh, undo>>
        ELSE IF ~Validates(s)
        THEN /\ effects' = << [e |-> "console.error"] >>
             /\ last' = Step("confirm", s.productId, Phase(s), "aborted",
                             s.previousState)
             /\ UNCHANGED <<statusUpdateState, products, backend, wired, clock,
                            toggle, refresh, undo>>
        ELSE /\ clock < T0 + MaxToggles
             /\ clock' = now
             /\ statusUpdateState' = ApplyingState(s)
             /\ products' = Patch(wired, products, s.productId, status, soldAt)
             /\ timers' = timers + 1
             /\ calls' = calls \cup
                    {[id |-> now, productId |-> s.productId,
                      willBeSold |-> s.willBeSold, status |-> status,
                      soldAt |-> soldAt, previousState |-> s.previousState[1],
                      found |-> Find(products, s.productId),
                      before |-> products[s.productId]]}
             /\ effects' = ConfirmEffects(wired, s.productId, status, soldAt)
             /\ last' = Step("confirm", s.productId, Phase(s), "dispatched",
                             s.previousState)
             /\ UNCHANGED <<backend, wired, refresh, undo>>

\* The awaited updateProduct resolves: the success branch and finally.
SettleSuccess(c) ==
    /\ c \in calls
    /\ c.productId \in DOMAIN backend
    /\ backend' = UpdateProduct(backend, c.productId, c.status, c.soldAt)
    /\ calls' = calls \ {c}
    /\ undos' = IF c.found
                THEN undos \cup {[id |-> c.id, productId |-> c.productId,
                                  previousState |-> c.previousState]}
                ELSE undos
    /\ statusUpdateState' = FinallyReset(statusUpdateState)
    /\ effects' = SuccessEffects(c.found, c.productId, c.willBeSold)
    /\ last' = Step("settle", c.productId, Phase(statusUpdateState),
                    "success", << c.previousState >>)
    /\ UNCHANGED <<products, wired, clock, timers, refresh, undoCalls,
                   undoClicks>>

\* The awaited updateProduct rejects: the catch block and finally.
SettleFailure(c, message) ==
    /\ c \in calls
    /\ message \in ServerMessages
    /\ calls' = calls \ {c}
    /\ products' = Patch(wired, products, c.productId,
                         RevertStatus(c.previousState),
                         RevertSoldAt(c.previousState))
    /\ statusUpdateState' = FinallyReset(statusUpdateState)
    /\ effects' = FailureEffects(wired, c.productId, c.previousState, message)
    /\ last' = Step("settle", c.productId, Phase(statusUpdateState),
                    "failure", << c.previousState >>)
    /\ UNCHANGED <<backend, wired, clock, timers, refresh, undo>>

\* The 500 ms timer fires: onRefresh?.(), whose fetch the backend serves with
\* the collection it holds.
TimerFires ==
    /\ timers > 0
    /\ wired => refreshes < MaxRefreshes
    /\ timers' = timers - 1
    /\ refreshes' = IF wired THEN refreshes + 1 ELSE refreshes
    /\ fetchResponses' = IF wired THEN fetchResponses \cup {backend}
                         ELSE fetchResponses
    /\ effects' = IF wired THEN << [e |-> "onRefresh"] >> ELSE << >>
    /\ last' = Step("timer", NoId, NoPhase, "fired", NoPrevious)
    /\ UNCHANGED <<statusUpdateState, products, backend, wired, clock, calls,
                   undo>>

\* The host replaces its collection by a served fetch.
RefreshApplied(r) ==
    /\ r \in fetchResponses
    /\ fetchResponses' = fetchResponses \ {r}
    /\ products' = r
    /\ effects' = << >>
    /\ last' = Step("refresh", NoId, NoPhase, "applied", NoPrevious)
    /\ UNCHANGED <<statusUpdateState, backend, wired, clock, toggle, refreshes,
                   undo>>

\* A click on a success toast's Undo button, up to its await.
UndoClicked(u) ==
    /\ u \in undos
    /\ undoClicks < MaxUndos
    /\ undoClicks' = undoClicks + 1
    /\ undos' = undos \ {u}
    /\ undoCalls' = undoCalls \cup {u}
    /\ effects' = Dispatch(u.productId, RevertStatus(u.previousState),
                           RevertSoldAt(u.previousState))
    /\ last' = Step("undo", u.productId, NoPhase, "dispatched",
                    << u.previousState >>)
    /\ UNCHANGED <<statusUpdateState, products, backend, wired, clock, toggle,
                   refresh>>

\* The awaited updateProduct of an Undo resolves.
UndoSuccess(u) ==
    /\ u \in undoCalls
    /\ u.productId \in DOMAIN backend
    /\ undoCalls' = undoCalls \ {u}
    /\ backend' = UpdateProduct(backend, u.productId,
                                RevertStatus(u.previousState),
                                RevertSoldAt(u.previousState))
    /\ products' = Patch(wired, products, u.productId,
                         RevertStatus(u.previousState),
                         RevertSoldAt(u.previousState))
    /\ effects' = PatchEffect(wired, u.productId,
                              RevertStatus(u.previousState),
                              RevertSoldAt(u.previousState))
    /\ last' = Step("undoSettle", u.productId, NoPhase, "success",
                    << u.previousState >>)
    /\ UNCHANGED <<statusUpdateState, wired, clock, toggle, refresh, undos,
                   undoClicks>>

\* The awaited updateProduct of an Undo rejects.
UndoFailure(u) ==
    /\ u \in undoCalls
    /\ undoCalls' = undoCalls \ {u}
    /\ effects' = UndoErrorToast
    /\ last' = Step("undoSettle", u.productId, NoPhase, "failure",
                    << u.previousState >>)
    /\ UNCHANGED <<statusUpdateState, products, backend, wired, clock, toggle,
                   refresh, undos, undoClicks>>

Next ==
    \/ \E p \in ProductIds : RequestToggle(p)
    \/ Cancel
    \/ Confirm
    \/ \E c \in calls : SettleSuccess(c)
    \/ \E c \in calls, m \in ServerMessages : SettleFailure(c, m)
    \/ TimerFires
    \/ \E r \in fetchResponses : RefreshApplied(r)
    \/ \E u \in undos : UndoClicked(u)
    \/ \E u \in undoCalls : UndoSuccess(u)
    \/ \E u \in undoCalls : UndoFailure(u)

Spec == Init /\ [][Next]_vars

\* The awaited updateProduct of some toggle resolves or rejects.
Settle ==
    \E c \in calls :
        \/ SettleSuccess(c)
        \/ \E m \in ServerMessages : SettleFailure(c, m)

\* Every updateProduct call of a toggle is answered in the end, and the
\* event loop then runs the continuation that awaits it.
FairSpec == Spec /\ WF_vars(Settle)

-----------------------------------------------------------------------------
(* Properties *)

\* The last step settled a toggle with this outcome.
Settled(outcome) == last.op = "settle" /\ last.result = outcome

\* The snapshot the settled toggle was confirmed with.
Snapshot == last.previousState[1]

\* The last step showed a toast with these fields.
Toasted(variant, names, action) ==
    \E i \in DOMAIN effects :
        /\ effects[i].e = "toast"
        /\ effects[i].variant = variant
        /\ effects[i].names = names
        /\ effects[i].action = action

\* The position of the first effect of a kind in the last step, 0 if none.
First(kind) ==
    IF \E i \in DOMAIN effects : effects[i].e = kind
    THEN CHOOSE i \in DOMAIN effects :
             /\ effects[i].e = kind
             /\ \A j \in DOMAIN effects : effects[j].e = kind => i <= j
    ELSE 0

\* C1: every confirm that passes validation patches the product in the local
\* collection, with the payload it then sends, before it dispatches
\* updateProduct.
C1_PatchBeforeDispatch ==
    (last.op = "confirm" /\ last.result = "dispatched") =>
        /\ First("patch") > 0
        /\ First("patch") < First("updateProduct")
        /\ effects[First("patch")].productId = last.productId
        /\ effects[First("patch")].status
               = effects[First("updateProduct")].status
        /\ effects[First("patch")].soldAt
               = effects[First("updateProduct")].soldAt

\* C2: when a toggle settles after its call failed, the product has the sold
\* flag and soldAt of the snapshot, the phase is Idle and an error toast was
\* shown.
C2_FailureRestoresSnapshot ==
    Settled("failure") =>
        /\ products[last.productId].isSold = Snapshot.isSold
        /\ products[last.productId].soldAt = Snapshot.soldAt
        /\ Phase(statusUpdateState) = "Idle"
        /\ Toasted("destructive", NoId, "none")

\* A toggle of a product the host patches has just settled after its call
\* failed.
C2_Witness ==
    /\ Settled("failure")
    /\ wired
    /\ Snapshot.isSold
    /\ Snapshot.soldAt = T0

\* C3: when a toggle of a product with sold flag s settles after its call
\* succeeded, the product has sold = ~s in the local collection, a soldAt
\* exactly when it is sold, and the phase is Idle.
C3_SuccessShowsNewState ==
    Settled("success") =>
        /\ products[last.productId].isSold = ~Snapshot.isSold
        /\ (products[last.productId].soldAt # NullTime) = ~Snapshot.isSold
        /\ Phase(statusUpdateState) = "Idle"

\* C4: a requestToggle for another product in the Confirming phase leaves
\* the toggle request state as it was.
C4_RequestWhileConfirmingRejected ==
    [][(/\ last'.op = "requestToggle"
        /\ Phase(statusUpdateState) = "Confirming"
        /\ last'.productId # statusUpdateState.productId)
           => statusUpdateState' = statusUpdateState]_vars

\* C5: a requestToggle in the Applying phase, for the same product or for
\* another, leaves the toggle request state as it was.
C5_RequestWhileApplyingRejected ==
    [][(/\ last'.op = "requestToggle"
        /\ Phase(statusUpdateState) = "Applying")
           => statusUpdateState' = statusUpdateState]_vars

\* C6: at most one updateProduct call of a toggle is outstanding.
C6_OneCallOutstanding == Cardinality(calls) <= 1

\* C7: cancel in the Confirming phase moves the phase to Idle, changes no
\* product, issues no call and schedules no refresh.
C7_CancelHasNoSideEffect ==
    [][(/\ last'.op = "cancel"
        /\ Phase(statusUpdateState) = "Confirming")
           => /\ Phase(statusUpdateState') = "Idle"
              /\ UNCHANGED <<products, backend, calls, timers, fetchResponses,
                             refreshes, undos, undoCalls>>]_vars

\* A cancel has just closed the dialog of a request.
C7_Witness ==
    /\ last.op = "cancel"
    /\ last.phase = "Confirming"
    /\ last.productId # NoId

\* C8: confirm in a phase other than Confirming patches nothing, schedules
\* no refresh and issues no call.
C8_ConfirmOutsideConfirmingIsNoOp ==
    [][(/\ last'.op = "confirm"
        /\ Phase(statusUpdateState) # "Confirming")
           => UNCHANGED <<products, calls, timers>>]_vars

\* C9: when a toggle settles, with either outcome, the toggle request state
\* is the cleared one: no product, no snapshot, every flag false.
C9_SettleClearsRequest ==
    last.op = "settle" =>
        /\ statusUpdateState.productId = NoId
        /\ statusUpdateState.previousState = NoPrevious
        /\ ~statusUpdateState.willBeSold
        /\ ~statusUpdateState.currentStatus
        /\ ~statusUpdateState.isUpdating
        /\ ~statusUpdateState.isDialogOpen

\* A toggle has just settled while another request was in the dialog.
C9_Witness ==
    /\ last.op = "settle"
    /\ last.phase = "Confirming"

\* C10: when a toggle settles after its call succeeded, a toast was shown
\* that names the product and the new state and offers Undo.
C10_SuccessToastOffersUndo ==
    Settled("success") =>
        \E i \in DOMAIN effects :
            /\ effects[i].e = "toast"
            /\ effects[i].names = last.productId
            /\ effects[i].description
                   = (IF Snapshot.isSold THEN "made available"
                      ELSE "marked as sold")
            /\ effects[i].action = "Undo"

\* A toggle that made a sold product available has just settled after its
\* call succeeded.
C10_Witness ==
    /\ Settled("success")
    /\ Snapshot.isSold

\* The last step was the continuation of an Undo's call with this outcome.
UndoSettled(outcome) == last.op = "undoSettle" /\ last.result = outcome

\* C11: the call an Undo issues carries the status and the soldAt of the
\* snapshot its toggle was confirmed with, and when that call succeeds the
\* product has, in the local collection and in the backend, the sold flag
\* and the soldAt of that snapshot.
C11_UndoWritesSnapshotBack ==
    /\ last.op = "undo" =>
           /\ Len(effects) = 1
           /\ effects[1].e = "updateProduct"
           /\ effects[1].productId = last.productId
           /\ effects[1].status
                  = (IF Snapshot.isSold THEN "sold" ELSE "available")
           /\ effects[1].soldAt = Snapshot.soldAt
    /\ UndoSettled("success") =>
           /\ products[last.productId].isSold = Snapshot.isSold
           /\ products[last.productId].soldAt = Snapshot.soldAt
           /\ backend[last.productId].isSold = Snapshot.isSold
           /\ backend[last.productId].soldAt = Snapshot.soldAt

\* The Undo of a toggle that made a sold product available has just
\* succeeded, after a second toggle was confirmed, on a host that patches.
C11_Witness ==
    /\ UndoSettled("success")
    /\ wired
    /\ Snapshot.isSold
    /\ Snapshot.soldAt = T0
    /\ clock = T0 + 2

\* C12: when the call of an Undo fails, an error toast is shown, no product
\* changes in the local collection or in the backend, and no call is issued.
C12_FailedUndoChangesNothing ==
    [][(last'.op = "undoSettle" /\ last'.result = "failure")
           => /\ UNCHANGED <<products, backend, calls, timers, fetchResponses,
                             undos>>
              /\ undoCalls' \subseteq undoCalls
              /\ \A i \in DOMAIN effects' : effects'[i].e # "updateProduct"
              /\ \E i \in DOMAIN effects' :
                     /\ effects'[i].e = "toast"
                     /\ effects'[i].variant = "destructive"
                     /\ effects'[i].description
                            = "Failed to undo status update"]_vars

\* The Undo of a toggle has just failed on a host that patches, and the
\* product is still as the toggle left it.
C12_Witness ==
    /\ UndoSettled("failure")
    /\ wired
    /\ products[last.productId].isSold = ~Snapshot.isSold

\* C13: isUpdating is set only while an updateProduct call of a toggle is
\* outstanding, and, every such call being answered in the end, a state in
\* the Applying phase is always followed by one in the Idle phase.
C13_ApplyingReachesIdle ==
    /\ [](statusUpdateState.isUpdating => calls # {})
    /\ (Phase(statusUpdateState) = "Applying")
           ~> (Phase(statusUpdateState) = "Idle")

\* A toggle is in the Applying phase while the call of an earlier toggle is
\* outstanding too.
C13_Witness ==
    /\ Phase(statusUpdateState) = "Applying"
    /\ Cardinality(calls) = 2

\* C14: the phase changes only from Idle to Confirming by requestToggle,
\* from Confirming to Idle by cancel, from Confirming to Applying by confirm
\* and from Applying to Idle by a settlement.
C14_PhaseTransitions ==
    [][LET from == Phase(statusUpdateState)
           to == Phase(statusUpdateState')
       IN  \/ from = to
           \/ from = "Idle" /\ to = "Confirming" /\ last'.op = "requestToggle"
           \/ from = "Confirming" /\ to = "Idle" /\ last'.op = "cancel"
           \/ from = "Confirming" /\ to = "Applying" /\ last'.op = "confirm"
           \/ from = "Applying" /\ to = "Idle" /\ last'.op = "settle"]_vars

\* A product has a soldAt exactly when it is sold.
Consistent(product) == (product.soldAt # NullTime) <=> product.isSold

\* C15: the products being consistent at the start, locally and in the
\* backend, every product of the local collection has a soldAt exactly when
\* it is sold in every state where no updateProduct call, of a toggle or of
\* an Undo, is outstanding.
C15_SoldAtIffSold ==
    (calls = {} /\ undoCalls = {}) =>
        \A p \in DOMAIN products : Consistent(products[p])

\* No call is outstanding after two toggles were confirmed and an Undo
\* succeeded on a host that patches.
C15_Witness ==
    /\ calls = {}
    /\ undoCalls = {}
    /\ wired
    /\ clock = T0 + 2
    /\ UndoSettled("success")

\* How many updateProduct calls a list of effects issues.
Dispatched(effs) ==
    Cardinality({i \in DOMAIN effs : effs[i].e = "updateProduct"})

\* C16: a confirm that passes validation issues exactly one updateProduct
\* call; the continuation of a failed call issues none, removes that call
\* alone, leaves the product with the snapshot's values, shows an error
\* toast and leaves the phase Idle; and no other step adds a call of a
\* toggle.
C16_NoRetry ==
    [][/\ (last'.op = "confirm" /\ last'.result = "dispatched") =>
              /\ Dispatched(effects') = 1
              /\ calls \subseteq calls'
              /\ Cardinality(calls') = Cardinality(calls) + 1
       /\ (last'.op = "settle" /\ last'.result = "failure") =>
              /\ Dispatched(effects') = 0
              /\ calls' \subseteq calls
              /\ Cardinality(calls') = Cardinality(calls) - 1
              /\ undoCalls' = undoCalls
              /\ products'[last'.productId] = last'.previousState[1]
              /\ \E i \in DOMAIN effects' :
                     /\ effects'[i].e = "toast"
                     /\ effects'[i].variant = "destructive"
              /\ Phase(statusUpdateState') = "Idle"
       /\ ~(last'.op = "confirm" /\ last'.result = "dispatched") =>
              calls' \subseteq calls]_vars

\* The only call outstanding has just failed, for a toggle that was to mark
\* a product as sold.
C16_Witness ==
    /\ Settled("failure")
    /\ ~Snapshot.isSold
    /\ calls = {}

\* C17: a confirm that runs while the product id or the snapshot is missing
\* issues no updateProduct call, patches no product, schedules no refresh
\* and leaves the toggle request state as it was.
C17_MissingDataAborts ==
    [][(/\ last'.op = "confirm"
        /\ \/ statusUpdateState.productId = NoId
           \/ statusUpdateState.previousState = NoPrevious)
           => /\ UNCHANGED <<statusUpdateState, products, backend, calls,
                             timers, fetchResponses, refreshes, undoCalls>>
              /\ Dispatched(effects') = 0
              /\ \A i \in DOMAIN effects' :
                     effects'[i].e \notin {"patch", "setTimeout", "setState"}]_vars

\* The Confirm handler has just returned from its check of the product id
\* and the snapshot.
C17_Witness ==
    /\ last.op = "confirm"
    /\ last.result = "aborted"
    /\ last.productId = NoId
    /\ last.previousState = NoPrevious

\* C18: in every state whose phase is Idle the toggle request state holds no
\* product id and no snapshot, and willBeSold is false.
C18_IdleHoldsNoRequest ==
    Phase(statusUpdateState) = "Idle" =>
        /\ statusUpdateState.productId = NoId
        /\ statusUpdateState.previousState = NoPrevious
        /\ ~statusUpdateState.willBeSold

\* C19: on a host that patches and refreshes, once every confirmed toggle
\* has settled and every scheduled refresh was fetched and applied, no Undo
\* having been clicked, the local collection equals the backend's.
C19_RefreshReconciles ==
    (/\ wired
     /\ clock > T0
     /\ calls = {}
     /\ timers = 0
     /\ fetchResponses = {}
     /\ undoClicks = 0)
        => \A p \in DOMAIN products :
               /\ products[p].isSold = backend[p].isSold
               /\ products[p].soldAt = backend[p].soldAt

\* The position of the first effect of a kind in a list of effects, 0 if
\* none.
Position(effs, kind) ==
    IF \E i \in DOMAIN effs : effs[i].e = kind
    THEN CHOOSE i \in DOMAIN effs :
             /\ effs[i].e = kind
             /\ \A j \in DOMAIN effs : effs[j].e = kind => i <= j
    ELSE 0

\* How many effects of a kind a list of effects holds.
Count(effs, kind) == Cardinality({i \in DOMAIN effs : effs[i].e = kind})

\* C20: a confirm that passes validation patches the local collection, then
\* schedules one refresh timer, then issues the call; a timer that fires
\* refreshes the collection once; and no other step, a settlement included,
\* schedules, cancels or fires a refresh.
C20_OneRefreshPerConfirm ==
    [][IF last'.op = "confirm" /\ last'.result = "dispatched"
       THEN /\ timers' = timers + 1
            /\ Count(effects', "setTimeout") = 1
            /\ Count(effects', "onRefresh") = 0
            /\ Position(effects', "patch") > 0
            /\ Position(effects', "patch") < Position(effects', "setTimeout")
            /\ Position(effects', "setTimeout")
                   < Position(effects', "updateProduct")
       ELSE IF last'.op = "timer"
       THEN /\ timers' = timers - 1
            /\ Count(effects', "setTimeout") = 0
            /\ Count(effects', "onRefresh") = 1
       ELSE /\ timers' = timers
            /\ Count(effects', "setTimeout") = 0
            /\ Count(effects', "onRefresh") = 0]_vars

\* The message the failure of the settled toggle carried.
FailureMessage == effects[Position(effects, "console.error")].message

\* C21: when a toggle settles after its call failed, the error toast shows
\* the message of the failure if it carries a text and the generic message
\* otherwise, no patch follows the toast, and the product has the sold flag
\* and the soldAt of the snapshot.
C21_ErrorToastMessage ==
    Settled("failure") =>
        /\ Count(effects, "toast") = 1
        /\ effects[Position(effects, "toast")].variant = "destructive"
        /\ effects[Position(effects, "toast")].description
               = (IF FailureMessage \in {NoMessage, ""}
                  THEN "Failed to update product status. Please try again."
                  ELSE FailureMessage)
        /\ \A i \in DOMAIN effects :
               effects[i].e = "patch" => i < Position(effects, "toast")
        /\ products[last.productId].isSold = Snapshot.isSold
        /\ products[last.productId].soldAt = Snapshot.soldAt

\* A toggle has just settled after its call failed with a message of the
\* server, on a host that patches.
C21_Witness ==
    /\ Settled("failure")
    /\ wired
    /\ FailureMessage = "Product not found"
    /\ Count(effects, "patch") = 1

\* A toggle has just settled after its call failed without a message.
C21_WitnessGeneric ==
    /\ Settled("failure")
    /\ FailureMessage = NoMessage

\* C22: when a toggle settles after its call failed, the product has in the
\* local collection the sold flag and the soldAt it had just before the
\* confirm of that toggle patched it.
C22_RollbackRestoresValueBeforePatch ==
    [][(last'.op = "settle" /\ last'.result = "failure")
           => \A c \in calls \ calls' :
                  /\ products'[c.productId].isSold = c.before.isSold
                  /\ products'[c.productId].soldAt = c.before.soldAt]_vars

\* C23: in every state whose phase is Idle no updateProduct call of a toggle
\* is outstanding.
C23_IdleHasNoCallOutstanding ==
    Phase(statusUpdateState) = "Idle" => calls = {}

====
